---------------------------- MODULE Spec2Model ----------------------------
(***************************************************************************)
(* Model of scripts/update-template-script.py: the helper that reads a     *)
(* PowerShell script, stores it under variables['$fxv#2'] of a JSON        *)
(* template and writes the template back.                                  *)
(*                                                                         *)
(* Texts are sequences of one-character strings.  A JSON value is a record *)
(* [t, v] with t in "null", "num", "str", "arr", "obj".  A JSON file holds *)
(* the same tree with every string in its literal (quoted, escaped) form,  *)
(* so that json.dump and json.loads are real conversions.                  *)
(***************************************************************************)
EXTENDS Integers, Sequences, FiniteSets, TLC

VARIABLES scriptFile, templateFile, outputFile, inPlace, outputWritable,
          pc, ps_script, template_content, template, success, exc,
          exitStatus, run, steps, tmplAtStart, outAtStart, parsedDoc,
          outAfterFirst

vars == <<scriptFile, templateFile, outputFile, inPlace, outputWritable,
          pc, ps_script, template_content, template, success, exc,
          exitStatus, run, steps, tmplAtStart, outAtStart, parsedDoc,
          outAfterFirst>>

(* ------------------------------ bounds --------------------------------- *)
MaxScriptLen == 2

MaxRuns == 2

(* ---------------------------- characters ------------------------------- *)
QUOTE == "\""

BSL == "\\"

LF == "\n"

CR == "\r"

\* a lone surrogate code point, which json.loads produces from the escape \ud800
SUR == "<U+D800>"

\* the four hex digits "ud800" of that escape, kept as one token
USUR == "ud800"

ScriptChars == {"a", QUOTE, BSL, CR, LF}

VariablesChars == <<"v", "a", "r", "i", "a", "b", "l", "e", "s">>

FxvChars == <<"$", "f", "x", "v", "#", "2">>

VARIABLES_KEY == "variables"

FXV_KEY == "$fxv#2"

(* ---------------------------- JSON values ------------------------------ *)
JNull == [t |-> "null", v |-> <<>>]

JNum(n) == [t |-> "num", v |-> n]

JStr(s) == [t |-> "str", v |-> s]

JArr(s) == [t |-> "arr", v |-> s]

JObj(f) == [t |-> "obj", v |-> f]

(* ------------------- open(filepath, 'r').read() ------------------------ *)
\* Text mode with the default newline=None: "\r\n" and "\r" become "\n".
RECURSIVE TranslateNewlines(_)
TranslateNewlines(s) ==
    IF s = <<>> THEN <<>>
    ELSE IF Head(s) = CR
         THEN IF Len(s) >= 2 /\ s[2] = LF
              THEN <<LF>> \o TranslateNewlines(SubSeq(s, 3, Len(s)))
              ELSE <<LF>> \o TranslateNewlines(Tail(s))
         ELSE <<Head(s)>> \o TranslateNewlines(Tail(s))

(* ----------------------------- json.dumps ------------------------------ *)
\* ESCAPE_DCT of the encoder used with ensure_ascii=False
EscapeChar(c) ==
    CASE c = QUOTE -> <<BSL, QUOTE>>
      [] c = BSL   -> <<BSL, BSL>>
      [] c = LF    -> <<BSL, "n">>
      [] c = CR    -> <<BSL, "r">>
      [] OTHER     -> <<c>>

RECURSIVE EscapeBody(_)
EscapeBody(s) ==
    IF s = <<>> THEN <<>> ELSE EscapeChar(Head(s)) \o EscapeBody(Tail(s))

\* json.dumps(text): the quoted literal
Dumps(s) == <<QUOTE>> \o EscapeBody(s) \o <<QUOTE>>

\* escape_for_json(text): json.dumps(text)[1:-1]
escape_for_json(text) == SubSeq(Dumps(text), 2, Len(Dumps(text)) - 1)

\* the tree json.dump writes: every string replaced by its literal
RECURSIVE DumpValue(_)
DumpValue(val) ==
    CASE val.t = "str" -> JStr(Dumps(val.v))
      [] val.t \in {"arr", "obj"} ->
            [t |-> val.t, v |-> [k \in DOMAIN val.v |-> DumpValue(val.v[k])]]
      [] OTHER -> val

\* a string that the utf-8 file object cannot encode
RECURSIVE HasSurrogate(_)
HasSurrogate(val) ==
    CASE val.t = "str" -> \E i \in DOMAIN val.v : val.v[i] = SUR
      [] val.t \in {"arr", "obj"} -> \E k \in DOMAIN val.v : HasSurrogate(val.v[k])
      [] OTHER -> FALSE

(* ----------------------------- json.loads ------------------------------ *)
BackslashChar(c) ==
    CASE c = QUOTE -> QUOTE
      [] c = BSL   -> BSL
      [] c = "n"   -> LF
      [] c = "r"   -> CR
      [] c = USUR  -> SUR
      [] OTHER     -> c

RECURSIVE Unescape(_)
Unescape(body) ==
    IF body = <<>> THEN <<>>
    ELSE IF Head(body) = BSL /\ Len(body) >= 2
         THEN <<BackslashChar(body[2])>> \o Unescape(SubSeq(body, 3, Len(body)))
         ELSE <<Head(body)>> \o Unescape(Tail(body))

RECURSIVE ValidBody(_)
ValidBody(body) ==
    IF body = <<>> THEN TRUE
    ELSE IF Head(body) = BSL
         THEN /\ Len(body) >= 2
              /\ body[2] \in {QUOTE, BSL, "n", "r", USUR}
              /\ ValidBody(SubSeq(body, 3, Len(body)))
         ELSE /\ Head(body) \notin {QUOTE, LF, CR}
              /\ ValidBody(Tail(body))

ValidLiteral(lit) ==
    /\ Len(lit) >= 2
    /\ lit[1] = QUOTE
    /\ lit[Len(lit)] = QUOTE
    /\ ValidBody(SubSeq(lit, 2, Len(lit) - 1))

\* the string a literal scans to
Loadstr(lit) == Unescape(SubSeq(lit, 2, Len(lit) - 1))

RECURSIVE ValidText(_)
ValidText(txt) ==
    CASE txt.t = "str" -> ValidLiteral(txt.v)
      [] txt.t \in {"arr", "obj"} -> \A k \in DOMAIN txt.v : ValidText(txt.v[k])
      [] OTHER -> TRUE

RECURSIVE LoadValue(_)
LoadValue(txt) ==
    CASE txt.t = "str" -> JStr(Loadstr(txt.v))
      [] txt.t \in {"arr", "obj"} ->
            [t |-> txt.t, v |-> [k \in DOMAIN txt.v |-> LoadValue(txt.v[k])]]
      [] OTHER -> txt

(* ------------------------------- files --------------------------------- *)
AbsentFile == [k |-> "absent", doc |-> JNull]

\* not JSON at all
GarbageFile == [k |-> "garbage", doc |-> JNull]

\* just opened with mode 'w': truncated to nothing
EmptyFile == [k |-> "empty", doc |-> JNull]

\* a prefix of a document, left by a dump that raised
PartialFile == [k |-> "partial", doc |-> JNull]

JsonFile(txt) == [k |-> "json", doc |-> txt]

NoContent == [k |-> "unset", doc |-> JNull]

AbsentScript == [k |-> "absent", chars |-> <<>>]

\* bytes that are not utf-8
UndecodableScript == [k |-> "undecodable", chars |-> <<>>]

TextScript(s) == [k |-> "text", chars |-> s]

(* ------------------ the template files a run may find ------------------ *)
\* the escapes of a template produced with ASCII-only output
AsciiEscapeChar(c) == IF c = SUR THEN <<BSL, USUR>> ELSE EscapeChar(c)

RECURSIVE AsciiEscapeBody(_)
AsciiEscapeBody(s) ==
    IF s = <<>> THEN <<>> ELSE AsciiEscapeChar(Head(s)) \o AsciiEscapeBody(Tail(s))

RECURSIVE TemplateText(_)
TemplateText(val) ==
    CASE val.t = "str" -> JStr(<<QUOTE>> \o AsciiEscapeBody(val.v) \o <<QUOTE>>)
      [] val.t \in {"arr", "obj"} ->
            [t |-> val.t, v |-> [k \in DOMAIN val.v |-> TemplateText(val.v[k])]]
      [] OTHER -> val

OldVals == {JStr(<<"a">>), JStr(<<SUR>>), JNum(1), JNull, JObj(<<>>)}

OtherVal == JStr(<<QUOTE, BSL, LF>>)

CvVals == {JStr(<<"a", QUOTE>>), JStr(<<SUR>>)}

VarObjs ==
    {<<>>, "other" :> OtherVal}
      \cup {FXV_KEY :> old : old \in OldVals}
      \cup {(FXV_KEY :> old) @@ ("other" :> OtherVal) : old \in OldVals}

VarVals ==
    {JNull, JNum(1), JStr(<<"a">>), JStr(FxvChars), JArr(<<>>),
     JArr(<<JStr(FxvChars)>>)}
      \cup {JObj(f) : f \in VarObjs}

TopObjs ==
    {<<>>}
      \cup {"contentVersion" :> c : c \in CvVals}
      \cup {VARIABLES_KEY :> v : v \in VarVals}
      \cup {(VARIABLES_KEY :> v) @@ ("contentVersion" :> c) :
                v \in VarVals, c \in CvVals}

TemplateDocs ==
    {JObj(f) : f \in TopObjs}
      \cup {JArr(<<>>), JArr(<<JStr(VariablesChars)>>), JStr(VariablesChars),
            JStr(<<"a">>), JNum(1), JNull}

TemplateFiles ==
    {AbsentFile, GarbageFile} \cup {JsonFile(TemplateText(d)) : d \in TemplateDocs}

Texts(n) == UNION {[1..m -> ScriptChars] : m \in 0..n}

ScriptFiles ==
    {AbsentScript, UndecodableScript}
      \cup {TextScript(s) : s \in Texts(MaxScriptLen)}

\* what the output path holds before the first run when it is a separate file
PriorOutputs == {AbsentFile, JsonFile(TemplateText(JObj(<<>>)))}

(* ------------------- Python's operators on JSON values ----------------- *)
IsSubstring(needle, hay) ==
    \E i \in 0..(Len(hay) - Len(needle)) :
        SubSeq(hay, i + 1, i + Len(needle)) = needle

\* key in container, for the str key whose characters are keyChars
PyIn(key, keyChars, container) ==
    CASE container.t = "obj" ->
            IF key \in DOMAIN container.v THEN "True" ELSE "False"
      [] container.t = "arr" ->
            IF \E i \in DOMAIN container.v : container.v[i] = JStr(keyChars)
            THEN "True" ELSE "False"
      [] container.t = "str" ->
            IF IsSubstring(keyChars, container.v) THEN "True" ELSE "False"
      [] OTHER -> "TypeError"

\* variant: only the outer key is tested
KeyCheckOuterOnly(doc) ==
    PyIn(VARIABLES_KEY, VariablesChars, doc)

\* 'variables' in template and '$fxv#2' in template['variables']
KeyCheck(doc) ==
    LET a == PyIn(VARIABLES_KEY, VariablesChars, doc) IN
    IF a # "True" THEN a
    ELSE IF doc.t # "obj" THEN "TypeError"
    ELSE PyIn(FXV_KEY, FxvChars, doc.v[VARIABLES_KEY])

\* template['variables']['$fxv#2'] = ps_script can be carried out
CanAssign(doc) == doc.t = "obj" /\ doc.v[VARIABLES_KEY].t = "obj"

\* variant: template['variables'] = {'$fxv#2': ps_script}
AssignFreshVariables(doc, s) ==
    JObj([doc.v EXCEPT ![VARIABLES_KEY] = JObj(FXV_KEY :> JStr(s))])

\* variant: template['variables']['$fxv#2'] += ps_script
AssignAppend(doc, s) ==
    LET vs == doc.v[VARIABLES_KEY].v IN
    JObj([doc.v EXCEPT ![VARIABLES_KEY] =
            JObj([k \in DOMAIN vs \cup {FXV_KEY} |->
                    IF k # FXV_KEY THEN vs[k]
                    ELSE IF k \in DOMAIN vs /\ vs[k].t = "str"
                         THEN JStr(vs[k].v \o s)
                         ELSE JStr(s)])])

\* variant: the value is replaced only where it already is a string
AssignIfString(doc, s) ==
    LET vs == doc.v[VARIABLES_KEY].v IN
    JObj([doc.v EXCEPT ![VARIABLES_KEY] =
            JObj([k \in DOMAIN vs |->
                    IF k = FXV_KEY /\ vs[k].t = "str" THEN JStr(s) ELSE vs[k]])])

\* template['variables']['$fxv#2'] = ps_script
AssignVariable(doc, s) ==
    LET vs == doc.v[VARIABLES_KEY].v IN
    JObj([doc.v EXCEPT ![VARIABLES_KEY] =
            JObj([k \in DOMAIN vs \cup {FXV_KEY} |->
                    IF k = FXV_KEY THEN JStr(s) ELSE vs[k]])])

(* --------------------------- the file system --------------------------- *)
\* the file at output_path
OutFile == IF inPlace THEN templateFile ELSE outputFile

\* open(output_path, 'w') and the writes to it act on that file
SetOutFile(f) ==
    IF inPlace
    THEN templateFile' = f /\ UNCHANGED outputFile
    ELSE outputFile' = f /\ UNCHANGED templateFile

\* the statements of update_template, in program order
StepOrder ==
    <<"read_script", "read_template", "parse", "update", "open_output", "dump">>

Range(s) == {s[i] : i \in DOMAIN s}

(* ------------------------------ Init ----------------------------------- *)
Init ==
    /\ scriptFile \in ScriptFiles
    /\ templateFile \in TemplateFiles
    /\ inPlace \in BOOLEAN
    /\ outputFile \in (IF inPlace THEN {AbsentFile} ELSE PriorOutputs)
    /\ outputWritable \in BOOLEAN
    /\ pc = "read_script"
    /\ ps_script = <<>>
    /\ template_content = NoContent
    /\ template = JNull
    /\ success = "none"
    /\ exc = "none"
    /\ exitStatus = -1
    /\ run = 1
    /\ steps = <<>>
    /\ tmplAtStart = templateFile
    /\ outAtStart = OutFile
    /\ parsedDoc = JNull
    /\ outAfterFirst = NoContent

(* ----------------------------- actions --------------------------------- *)
\* an exception leaves update_template and nothing catches it
Raise(e) ==
    /\ exc' = e
    /\ pc' = "raised"

\* read_powershell_script(filepath)
read_powershell_script(file) == TranslateNewlines(file.chars)

\* variant: a script that cannot be read counts as an empty script
ReadScriptLenient ==
    /\ pc = "read_script"
    /\ steps' = Append(steps, "read_script")
    /\ ps_script' = (IF scriptFile.k = "text"
                     THEN read_powershell_script(scriptFile) ELSE <<>>)
    /\ pc' = "read_template"
    /\ UNCHANGED <<scriptFile, templateFile, outputFile, inPlace,
                   outputWritable, template_content, template, success, exc,
                   exitStatus, run, tmplAtStart, outAtStart, parsedDoc,
                   outAfterFirst>>

\* ps_script = read_powershell_script(script_path)
ReadScript ==
    /\ pc = "read_script"
    /\ steps' = Append(steps, "read_script")
    /\ IF scriptFile.k = "absent"
       THEN Raise("FileNotFoundError") /\ UNCHANGED ps_script
       ELSE IF scriptFile.k = "undecodable"
       THEN Raise("UnicodeDecodeError") /\ UNCHANGED ps_script
       ELSE /\ ps_script' = read_powershell_script(scriptFile)
            /\ pc' = "read_template"
            /\ UNCHANGED exc
    /\ UNCHANGED <<scriptFile, templateFile, outputFile, inPlace,
                   outputWritable, template_content, template, success,
                   exitStatus, run, tmplAtStart, outAtStart, parsedDoc,
                   outAfterFirst>>

\* variant: the output file is opened for writing before the template is read
ReadTemplateAfterOpen ==
    /\ pc = "read_template"
    /\ steps' = steps \o <<"open_output", "read_template">>
    /\ SetOutFile(EmptyFile)
    /\ template_content' = (IF inPlace THEN EmptyFile ELSE templateFile)
    /\ pc' = "parse"
    /\ UNCHANGED <<scriptFile, inPlace, outputWritable, ps_script, template,
                   success, exc, exitStatus, run, tmplAtStart, outAtStart,
                   parsedDoc, outAfterFirst>>

\* with open(template_path, 'r') as f: template_content = f.read()
ReadTemplate ==
    /\ pc = "read_template"
    /\ steps' = Append(steps, "read_template")
    /\ IF templateFile.k = "absent"
       THEN Raise("FileNotFoundError") /\ UNCHANGED template_content
       ELSE /\ template_content' = templateFile
            /\ pc' = "parse"
            /\ UNCHANGED exc
    /\ UNCHANGED <<scriptFile, templateFile, outputFile, inPlace,
                   outputWritable, ps_script, template, success, exitStatus,
                   run, tmplAtStart, outAtStart, parsedDoc, outAfterFirst>>

\* template = json.loads(template_content)
ParseTemplate ==
    /\ pc = "parse"
    /\ steps' = Append(steps, "parse")
    /\ IF template_content.k = "json" /\ ValidText(template_content.doc)
       THEN /\ template' = LoadValue(template_content.doc)
            /\ parsedDoc' = LoadValue(template_content.doc)
            /\ pc' = "update"
            /\ UNCHANGED exc
       ELSE Raise("JSONDecodeError") /\ UNCHANGED <<template, parsedDoc>>
    /\ UNCHANGED <<scriptFile, templateFile, outputFile, inPlace,
                   outputWritable, ps_script, template_content, success,
                   exitStatus, run, tmplAtStart, outAtStart, outAfterFirst>>

\* the if/else on the two keys: assign, or print the error and return False
UpdateVariable ==
    /\ pc = "update"
    /\ steps' = Append(steps, "update")
    /\ LET c == KeyCheck(template) IN
       IF c = "True" /\ CanAssign(template)
       THEN /\ template' = AssignVariable(template, ps_script)
            /\ pc' = "open_output"
            /\ UNCHANGED <<exc, success>>
       ELSE IF c = "False"
       THEN /\ success' = "False"
            /\ pc' = "returned"
            /\ UNCHANGED <<exc, template>>
       ELSE Raise("TypeError") /\ UNCHANGED <<template, success>>
    /\ UNCHANGED <<scriptFile, templateFile, outputFile, inPlace,
                   outputWritable, ps_script, template_content, exitStatus,
                   run, tmplAtStart, outAtStart, parsedDoc, outAfterFirst>>

\* with open(output_path, 'w') as f: the file is truncated when it opens
OpenOutput ==
    /\ pc = "open_output"
    /\ steps' = Append(steps, "open_output")
    /\ IF outputWritable
       THEN /\ SetOutFile(EmptyFile)
            /\ pc' = "dump"
            /\ UNCHANGED exc
       ELSE Raise("PermissionError") /\ UNCHANGED <<templateFile, outputFile>>
    /\ UNCHANGED <<scriptFile, inPlace, outputWritable, ps_script,
                   template_content, template, success, exitStatus, run,
                   tmplAtStart, outAtStart, parsedDoc, outAfterFirst>>

\* json.dump(template, f, indent=2, ensure_ascii=False); return True
DumpTemplate ==
    /\ pc = "dump"
    /\ steps' = Append(steps, "dump")
    /\ IF HasSurrogate(template)
       THEN /\ SetOutFile(PartialFile)
            /\ Raise("UnicodeEncodeError")
            /\ UNCHANGED success
       ELSE /\ SetOutFile(JsonFile(DumpValue(template)))
            /\ success' = "True"
            /\ pc' = "returned"
            /\ UNCHANGED exc
    /\ UNCHANGED <<scriptFile, inPlace, outputWritable, ps_script,
                   template_content, template, exitStatus, run, tmplAtStart,
                   outAtStart, parsedDoc, outAfterFirst>>

\* variant: sys.exit(0)
SysExitZero ==
    /\ pc = "returned"
    /\ exitStatus' = 0
    /\ pc' = "exited"
    /\ outAfterFirst' = (IF run = 1 THEN OutFile ELSE outAfterFirst)
    /\ UNCHANGED <<scriptFile, templateFile, outputFile, inPlace,
                   outputWritable, ps_script, template_content, template,
                   success, exc, run, steps, tmplAtStart, outAtStart,
                   parsedDoc>>

\* sys.exit(0 if success else 1)
SysExit ==
    /\ pc = "returned"
    /\ exitStatus' = (IF success = "True" THEN 0 ELSE 1)
    /\ pc' = "exited"
    /\ outAfterFirst' = (IF run = 1 THEN OutFile ELSE outAfterFirst)
    /\ UNCHANGED <<scriptFile, templateFile, outputFile, inPlace,
                   outputWritable, ps_script, template_content, template,
                   success, exc, run, steps, tmplAtStart, outAtStart,
                   parsedDoc>>

\* an exception reaches the top of the script: traceback, status 1
UncaughtExit ==
    /\ pc = "raised"
    /\ exitStatus' = 1
    /\ pc' = "exited"
    /\ outAfterFirst' = (IF run = 1 THEN OutFile ELSE outAfterFirst)
    /\ UNCHANGED <<scriptFile, templateFile, outputFile, inPlace,
                   outputWritable, ps_script, template_content, template,
                   success, exc, run, steps, tmplAtStart, outAtStart,
                   parsedDoc>>

\* the script is started again on the same paths; nothing is kept in memory
RunAgain ==
    /\ pc = "exited"
    /\ run < MaxRuns
    /\ run' = run + 1
    /\ pc' = "read_script"
    /\ ps_script' = <<>>
    /\ template_content' = NoContent
    /\ template' = JNull
    /\ success' = "none"
    /\ exc' = "none"
    /\ exitStatus' = -1
    /\ steps' = <<>>
    /\ tmplAtStart' = templateFile
    /\ outAtStart' = OutFile
    /\ parsedDoc' = JNull
    /\ UNCHANGED <<scriptFile, templateFile, outputFile, inPlace,
                   outputWritable, outAfterFirst>>

Next ==
    \/ ReadScript
    \/ ReadTemplate
    \/ ParseTemplate
    \/ UpdateVariable
    \/ OpenOutput
    \/ DumpTemplate
    \/ SysExit
    \/ UncaughtExit
    \/ RunAgain

Spec == Init /\ [][Next]_vars

(* ======================= properties of the program ===================== *)
Did(step) == step \in Range(steps)

IsPrefix(s, t) == Len(s) <= Len(t) /\ s = SubSeq(t, 1, Len(s))

\* update_template returned True
Completed == pc \in {"returned", "exited"} /\ success = "True"

\* the document a JSON file parses to
Parsed(file) == LoadValue(file.doc)

\* doc is an object whose variables object contains $fxv#2
HasFxv(doc) ==
    /\ doc.t = "obj"
    /\ VARIABLES_KEY \in DOMAIN doc.v
    /\ doc.v[VARIABLES_KEY].t = "obj"
    /\ FXV_KEY \in DOMAIN doc.v[VARIABLES_KEY].v

\* doc is an object without variables, or with a variables object without $fxv#2
LacksFxv(doc) ==
    /\ doc.t = "obj"
    /\ \/ VARIABLES_KEY \notin DOMAIN doc.v
       \/ /\ doc.v[VARIABLES_KEY].t = "obj"
          /\ FXV_KEY \notin DOMAIN doc.v[VARIABLES_KEY].v

\* the value of variables['$fxv#2'] in doc
FxvOf(doc) == doc.v[VARIABLES_KEY].v[FXV_KEY]

LoadErrors == {"FileNotFoundError", "UnicodeDecodeError", "JSONDecodeError"}

\* one of the three loads of this run cannot succeed
LoadFails ==
    \/ scriptFile.k # "text"
    \/ tmplAtStart.k # "json"
    \/ ~ValidText(tmplAtStart.doc)

\* C1: after a run that completes on a template whose variables object has
\* $fxv#2, the output document's variables['$fxv#2'] is exactly the text of
\* the script file.
C1_ScriptStoredExactly ==
    (Completed /\ HasFxv(parsedDoc)) =>
        /\ OutFile.k = "json"
        /\ FxvOf(Parsed(OutFile)) = JStr(scriptFile.chars)

\* C2: when the parsed template is an object without variables, or its
\* variables object has no $fxv#2, the update step returns False, leaves the
\* document in memory as parsed, never opens the output file, leaves that
\* file as it was, and the process exits with status 1.
C2_MissingKeyFails ==
    (Did("update") /\ LacksFxv(parsedDoc)) =>
        /\ pc \in {"returned", "exited"}
        /\ success = "False"
        /\ exc = "none"
        /\ template = parsedDoc
        /\ ~Did("open_output")
        /\ OutFile = outAtStart
        /\ (pc = "exited" => exitStatus = 1)

C2_Witness ==
    /\ pc = "exited"
    /\ exitStatus = 1
    /\ Did("update")
    /\ LacksFxv(parsedDoc)
    /\ VARIABLES_KEY \in DOMAIN parsedDoc.v

\* C3: in the output document of a completed run every key and value other
\* than variables['$fxv#2'] equals that of the input template: same top-level
\* keys, same keys of variables, same values everywhere else.
C3_OthersUnchanged ==
    Completed =>
        /\ OutFile.k = "json"
        /\ ValidText(OutFile.doc)
        /\ LET out == Parsed(OutFile)
               inp == Parsed(tmplAtStart)
           IN  /\ out.t = "obj"
               /\ DOMAIN out.v = DOMAIN inp.v
               /\ \A k \in DOMAIN out.v \ {VARIABLES_KEY} : out.v[k] = inp.v[k]
               /\ out.v[VARIABLES_KEY].t = "obj"
               /\ DOMAIN out.v[VARIABLES_KEY].v = DOMAIN inp.v[VARIABLES_KEY].v
               /\ \A k \in DOMAIN out.v[VARIABLES_KEY].v \ {FXV_KEY} :
                      out.v[VARIABLES_KEY].v[k] = inp.v[VARIABLES_KEY].v[k]

C3_Witness ==
    /\ Completed
    /\ "contentVersion" \in DOMAIN Parsed(OutFile).v
    /\ "other" \in DOMAIN Parsed(OutFile).v[VARIABLES_KEY].v
    /\ FxvOf(Parsed(OutFile)) # FxvOf(Parsed(tmplAtStart))

\* C4: when a load cannot succeed (script missing or unreadable, template
\* missing, template not JSON) the run never reaches the update or the write,
\* the output file stays as it was, and the process ends with status 1 on the
\* uncaught exception.
C4_LoadFailureWritesNothing ==
    LoadFails =>
        /\ ~Did("update")
        /\ ~Did("open_output")
        /\ ~Did("dump")
        /\ success = "none"
        /\ OutFile = outAtStart
        /\ (pc = "exited" => exitStatus = 1 /\ exc \in LoadErrors)

C4_Witness ==
    /\ pc = "exited"
    /\ scriptFile.k = "absent"
    /\ exc = "FileNotFoundError"
    /\ exitStatus = 1
    /\ OutFile = outAtStart

\* C5: whenever the parsed template lacks the variables object (also when
\* variables is not an object or the top-level value is not an object) or the
\* key $fxv#2, the run ends in the controlled outcome (False, status 1, no
\* write) and never in an uncaught exception.
C5_AlwaysControlledFailure ==
    (Did("update") /\ ~HasFxv(parsedDoc)) =>
        /\ pc \in {"returned", "exited"}
        /\ exc = "none"
        /\ success = "False"
        /\ ~Did("open_output")
        /\ (pc = "exited" => exitStatus = 1)

\* C6: with the files left as they are, the output file after a later run
\* equals the output file after the first run.
C6_Idempotent ==
    (run >= 2 /\ pc = "exited") => OutFile = outAfterFirst

C6_Witness ==
    /\ run = 2
    /\ pc = "exited"
    /\ success = "True"
    /\ inPlace
    /\ ps_script # <<>>
    /\ FxvOf(parsedDoc) = JStr(ps_script)

\* C7: with output path = template path, once the output file has been opened
\* for writing the template has already been read and parsed from its
\* original contents, and the document written is computed from them.
C7_ReadBeforeOpen ==
    (inPlace /\ Did("open_output")) =>
        /\ Did("parse")
        /\ template_content = tmplAtStart
        /\ parsedDoc = Parsed(tmplAtStart)
        /\ (success = "True" =>
              templateFile =
                JsonFile(DumpValue(AssignVariable(Parsed(tmplAtStart), ps_script))))

C7_Witness ==
    /\ inPlace
    /\ pc = "dump"
    /\ templateFile = EmptyFile
    /\ template = AssignVariable(Parsed(tmplAtStart), ps_script)

\* C8: the string read_powershell_script returns has exactly the characters
\* of the script file, line endings included.
C8_ReadVerbatim ==
    (scriptFile.k = "text" /\ pc # "read_script") =>
        ps_script = scriptFile.chars

\* C9: once the update step has run on a template that has the key, the value
\* of variables['$fxv#2'] is the script string whatever type it held before,
\* no TypeError is raised, and a completed run's output holds a string there.
C9_ValueIsString ==
    (Did("update") /\ HasFxv(parsedDoc)) =>
        /\ exc # "TypeError"
        /\ FxvOf(template).t = "str"
        /\ (Completed =>
              /\ OutFile.k = "json"
              /\ FxvOf(Parsed(OutFile)).t = "str")

C9_Witness ==
    /\ Completed
    /\ HasFxv(parsedDoc)
    /\ FxvOf(parsedDoc).t \in {"num", "null", "obj"}
    /\ FxvOf(Parsed(OutFile)).t = "str"

\* C10: the steps of a run are a prefix of read script, read template, parse,
\* update, open, dump (so each happens at most once); the output file is
\* touched only after the key check succeeded; the exit status is 0 exactly
\* when update_template returned True after the dump, and 1 otherwise.
C10_OrderAndStatus ==
    /\ IsPrefix(steps, StepOrder)
    /\ (Did("open_output") => Did("update") /\ KeyCheck(parsedDoc) = "True")
    /\ (OutFile # outAtStart => Did("open_output"))
    /\ (success = "True" => Did("dump") /\ exc = "none")
    /\ (pc # "exited" <=> exitStatus = -1)
    /\ (pc = "exited" => (exitStatus = 0 <=> success = "True"))
    /\ (pc = "exited" => exitStatus \in {0, 1})
    /\ (pc = "exited" /\ success = "False" => exitStatus = 1)

C10_Witness ==
    /\ pc = "exited"
    /\ exitStatus = 0
    /\ steps = StepOrder
    /\ success = "True"

=============================================================================
